---- MODULE Spec2Model ----
(***************************************************************************)
(* Model of src/main.py: the walmart search/product scraper.               *)
(*                                                                         *)
(*   Spec             one scrape_walmart run against a canned site         *)
(*   SpecUrl          create_search_url applied to bounded query strings   *)
(*   SpecParseSearch  parse_search applied to bounded search documents     *)
(*   SpecParseProduct parse_product applied to bounded product documents   *)
(***************************************************************************)
EXTENDS Integers, Sequences, FiniteSets, TLC

VARIABLES
    site,            \* the canned documents the fetch collaborator serves
    pc,              \* position of the run inside scrape_walmart
    requestedPages,  \* search pages handed to the session, in submission order
    queue,           \* submitted requests the session has not started yet
    inflight,        \* requests the session has started and not yet yielded
    previews,        \* discover_walmart's accumulated previews
    total_items,     \* discover_walmart's total_items
    max_page,        \* discover_walmart's max_page (after the clamp)
    product_urls,    \* scrape_walmart's product_urls
    results,         \* _scrape_products_by_url's results
    returned,        \* <<>> until scrape_walmart returns, then <<its value>>
    error,           \* <<>> or <<the exception that ended the run>>
    input,           \* argument of the pure function under test
    output           \* <<>> or <<its result>>

vars == <<site, pc, requestedPages, queue, inflight, previews,
          total_items, max_page, product_urls, results,
          returned, error, input, output>>

runVars == <<site, pc, requestedPages, queue, inflight, previews,
             total_items, max_page, product_urls, results,
             returned, error>>

(***************************************************************************)
(* Bounds of the model and constants of the program                        *)
(***************************************************************************)
PageSize == 40
PageCap == 25
Window == 2
RichPages == 3
NumPaths == 2
MaxItems == 3
MaxQueryLen == 2

Min(a, b) == IF a < b THEN a ELSE b
Max(a, b) == IF a > b THEN a ELSE b

\* variant: floor instead of ceiling
CeilDiv_Floor(a, b) == a \div b

\* math.ceil(a / b) for integers, b > 0
CeilDiv(a, b) == -((-a) \div b)

Range(s) == {s[i] : i \in DOMAIN s}

\* list(range(a, b + 1))
IntervalSeq(a, b) == [i \in 1..Max(0, b - a + 1) |-> a + i - 1]

RECURSIVE Flatten(_)
Flatten(ss) == IF ss = <<>> THEN <<>> ELSE Head(ss) \o Flatten(Tail(ss))

\* number of positions of s holding x
Count(s, x) == Cardinality({i \in DOMAIN s : s[i] = x})

(***************************************************************************)
(* The canned site                                                         *)
(***************************************************************************)
TotalCounts == {0, 1, 40, 41, 81, 1050}
OddPages == {0, 1, 2, 3, PageCap}
SearchKinds == {"noblob", "malformed", "nourl", "fetchfail"}
ProductKinds == {"ok", "noblob", "malformed", "fetchfail"}
Paths == {"/ip/" \o ToString(n) : n \in 0..(NumPaths - 1)}

PathOf(p, i) == "/ip/" \o ToString((p + i) % NumPaths)

Sites ==
    {s \in [total : TotalCounts, oddPage : OddPages, oddKind : SearchKinds,
            oddPath : Paths \cup {"none"}, oddProductKind : ProductKinds \ {"ok"}] :
        /\ s.oddPage = 0 => s.oddKind = "noblob"
        /\ s.oddPath = "none" => s.oddProductKind = "noblob"}

SearchKind(s, p) == IF p = s.oddPage THEN s.oddKind ELSE "ok"

ProductKind(s, path) == IF path = s.oddPath THEN s.oddProductKind ELSE "ok"

ProductItem(s, p, i) ==
    IF SearchKind(s, p) = "nourl"
    THEN [typename |-> "Product", page |-> p, pos |-> i]
    ELSE [typename |-> "Product", page |-> p, pos |-> i, canonicalUrl |-> PathOf(p, i)]

OtherItem(t, p, i) == [typename |-> t, page |-> p, pos |-> i]

\* itemStacks[0].items of search page p
Items(s, p) ==
    IF p <= RichPages
    THEN <<ProductItem(s, p, 1), OtherItem("AdPlaceholder", p, 2), ProductItem(s, p, 3)>>
    ELSE <<OtherItem("TileTakeOverProductPlaceholder", p, 1)>>

\* the response the session yields for search page p
SearchResponse(s, p) ==
    LET kind == SearchKind(s, p)
        sponsored == [count |-> 7, items |-> <<ProductItem(s, p, 9)>>] IN
    CASE kind = "fetchfail" -> [failed |-> TRUE]
      [] kind = "noblob"    -> [failed |-> FALSE, blob |-> FALSE]
      [] kind = "malformed" ->
           [failed |-> FALSE, blob |-> TRUE,
            itemStacks |-> <<[items |-> Items(s, p)], sponsored>>]
      [] OTHER ->
           [failed |-> FALSE, blob |-> TRUE,
            itemStacks |-> <<[count |-> s.total, items |-> Items(s, p)], sponsored>>]

Origin == "https://www.walmart.com"

RawProduct(path) ==
    [id |-> path, name |-> "spider", type |-> "VARIANT", priceInfo |-> 5,
     sellerId |-> "F55", usItemId |-> path]

\* the response the session yields for a product url
ProductResponse(s, url) ==
    LET path == CHOOSE q \in Paths : Origin \o q = url
        kind == ProductKind(s, path) IN
    CASE kind = "fetchfail" -> [failed |-> TRUE]
      [] kind = "noblob"    -> [failed |-> FALSE, blob |-> FALSE]
      [] kind = "malformed" ->
           [failed |-> FALSE, blob |-> TRUE, data |-> [product |-> RawProduct(path)]]
      [] OTHER ->
           [failed |-> FALSE, blob |-> TRUE,
            data |-> [product |-> RawProduct(path), reviews |-> [of |-> path]]]

(***************************************************************************)
(* Page parser                                                             *)
(***************************************************************************)
Raise(e) == [raised |-> TRUE, exc |-> e]

\* variant: the total is the length of the filtered list
ParseSearch_FilteredCount(result) ==
    IF result.failed THEN Raise("AttributeError")
    ELSE IF ~result.blob THEN [raised |-> FALSE, previews |-> <<>>, total |-> 0]
    ELSE IF Len(result.itemStacks) = 0 THEN Raise("IndexError")
    ELSE LET stack == result.itemStacks[1] IN
         IF "count" \notin DOMAIN stack \/ "items" \notin DOMAIN stack
         THEN Raise("KeyError")
         ELSE IF \E i \in DOMAIN stack.items : "typename" \notin DOMAIN stack.items[i]
         THEN Raise("KeyError")
         ELSE LET kept == SelectSeq(stack.items, LAMBDA r : r.typename = "Product") IN
              [raised |-> FALSE, previews |-> kept, total |-> Len(kept)]

\* variant: a missing blob is not checked for and json.loads(None) raises
ParseSearch_NoBlobRaises(result) ==
    IF result.failed THEN Raise("AttributeError")
    ELSE IF ~result.blob THEN Raise("TypeError")
    ELSE IF Len(result.itemStacks) = 0 THEN Raise("IndexError")
    ELSE LET stack == result.itemStacks[1] IN
         IF "count" \notin DOMAIN stack \/ "items" \notin DOMAIN stack
         THEN Raise("KeyError")
         ELSE IF \E i \in DOMAIN stack.items : "typename" \notin DOMAIN stack.items[i]
         THEN Raise("KeyError")
         ELSE [raised |-> FALSE,
               previews |-> SelectSeq(stack.items, LAMBDA r : r.typename = "Product"),
               total |-> stack.count]

\* parse_search: value is the (results, total_results) tuple, or the raise
ParseSearch(result) ==
    IF result.failed THEN Raise("AttributeError")
    ELSE IF ~result.blob THEN [raised |-> FALSE, previews |-> <<>>, total |-> 0]
    ELSE IF Len(result.itemStacks) = 0 THEN Raise("IndexError")
    ELSE LET stack == result.itemStacks[1] IN
         IF "count" \notin DOMAIN stack \/ "items" \notin DOMAIN stack
         THEN Raise("KeyError")
         ELSE IF \E i \in DOMAIN stack.items : "typename" \notin DOMAIN stack.items[i]
         THEN Raise("KeyError")
         ELSE [raised |-> FALSE,
               previews |-> SelectSeq(stack.items, LAMBDA r : r.typename = "Product"),
               total |-> stack.count]

wanted_product_keys ==
    {"availabilityStatus", "averageRating", "brand", "id", "imageInfo",
     "manufacturerName", "name", "orderLimit", "orderMinLimit", "priceInfo",
     "shortDescription", "type"}

\* variant: the raw product is returned unfiltered
ParseProduct_NoFilter(result) ==
    IF result.failed THEN Raise("AttributeError")
    ELSE IF ~result.blob THEN [raised |-> FALSE, value |-> <<>>]
    ELSE IF "product" \notin DOMAIN result.data \/ "reviews" \notin DOMAIN result.data
    THEN Raise("KeyError")
    ELSE [raised |-> FALSE,
          value |-> <<[product |-> result.data.product, reviews |-> result.data.reviews]>>]

\* parse_product: value <<>> is None, <<record>> is the returned dict
ParseProduct(result) ==
    IF result.failed THEN Raise("AttributeError")
    ELSE IF ~result.blob THEN [raised |-> FALSE, value |-> <<>>]
    ELSE IF "product" \notin DOMAIN result.data \/ "reviews" \notin DOMAIN result.data
    THEN Raise("KeyError")
    ELSE LET raw == result.data.product
             product == [k \in (DOMAIN raw) \cap wanted_product_keys |-> raw[k]] IN
         [raised |-> FALSE,
          value |-> <<[product |-> product, reviews |-> result.data.reviews]>>]

\* urljoin("https://www.walmart.com/", path) for a site-relative path
UrlJoin(path) == Origin \o path

(***************************************************************************)
(* URL builder.  A string is a sequence of characters; "U+00E9" stands for *)
(* the single non-ASCII character e-acute.                                 *)
(***************************************************************************)
LowerCase == {"a", "b", "c", "d", "e", "f", "g", "h", "i", "j", "k", "l", "m", "n", "o", "p", "q", "r", "s", "t", "u", "v", "w", "x", "y", "z"}
UpperCase == {"A", "B", "C", "D", "E", "F", "G", "H", "I", "J", "K", "L", "M", "N", "O", "P", "Q", "R", "S", "T", "U", "V", "W", "X", "Y", "Z"}
DigitChars == <<"0", "1", "2", "3", "4", "5", "6", "7", "8", "9">>
HexChars == DigitChars \o <<"A", "B", "C", "D", "E", "F">>

\* the characters urllib never quotes
AlwaysSafe == LowerCase \cup UpperCase \cup Range(DigitChars) \cup {"_", ".", "-", "~"}

\* the UTF-8 encoding of a character
Utf8(c) ==
    CASE c = "a" -> <<97>>
      [] c = "Z" -> <<90>>
      [] c = "7" -> <<55>>
      [] c = "_" -> <<95>>
      [] c = " " -> <<32>>
      [] c = "&" -> <<38>>
      [] c = "=" -> <<61>>
      [] c = "%" -> <<37>>
      [] c = "+" -> <<43>>
      [] c = "/" -> <<47>>
      [] c = "U+00E9" -> <<195, 169>>

PercentByte(b) == <<"%", HexChars[(b \div 16) + 1], HexChars[(b % 16) + 1]>>

\* variant: quote_plus with safe='&'
QuoteChar_AmpSafe(c) ==
    IF c \in AlwaysSafe \cup {"&"} THEN <<c>>
    ELSE IF c = " " THEN <<"+">>
    ELSE Flatten([i \in DOMAIN Utf8(c) |-> PercentByte(Utf8(c)[i])])

\* quote_plus(c, safe='') for one character
QuoteChar(c) ==
    IF c \in AlwaysSafe THEN <<c>>
    ELSE IF c = " " THEN <<"+">>
    ELSE Flatten([i \in DOMAIN Utf8(c) |-> PercentByte(Utf8(c)[i])])

\* quote_plus(s, safe='')
QuotePlus(s) == Flatten([i \in DOMAIN s |-> QuoteChar(s[i])])

\* str(n) for n >= 0
RECURSIVE Str(_)
Str(n) == IF n < 10 THEN <<DigitChars[n + 1]>> ELSE Str(n \div 10) \o <<DigitChars[(n % 10) + 1]>>

RECURSIVE JoinAmp(_)
JoinAmp(parts) ==
    IF parts = <<>> THEN <<>>
    ELSE IF Len(parts) = 1 THEN parts[1]
    ELSE parts[1] \o <<"&">> \o JoinAmp(Tail(parts))

\* urlencode(dict): the pairs in insertion order
UrlEncode(pairs) ==
    JoinAmp([i \in DOMAIN pairs |-> QuotePlus(pairs[i][1]) \o <<"=">> \o QuotePlus(pairs[i][2])])

SearchEndpoint == <<"h", "t", "t", "p", "s", ":", "/", "/", "w", "w", "w", ".", "w", "a", "l", "m", "a", "r", "t", ".", "c", "o", "m", "/", "s", "e", "a", "r", "c", "h", "?">>
price_low == <<"p", "r", "i", "c", "e", "_", "l", "o", "w">>
best_match == <<"b", "e", "s", "t", "_", "m", "a", "t", "c", "h">>

\* create_search_url(query, page, sort)
CreateSearchUrl(query, page, sort) ==
    SearchEndpoint \o UrlEncode(<<
        <<<<"q">>, query>>,
        <<<<"s", "o", "r", "t">>, sort>>,
        <<<<"p", "a", "g", "e">>, Str(page)>>,
        <<<<"a", "f", "f", "i", "n", "i", "t", "y", "O", "v", "e", "r", "r", "i", "d", "e">>, <<"d", "e", "f", "a", "u", "l", "t">>>> >>)

(***************************************************************************)
(* The session's concurrent_scrape: requests are started in submission     *)
(* order, at most Window at a time; any started request may be yielded.    *)
(***************************************************************************)
Started(q, fl) == SubSeq(q, 1, Min(Len(q), Max(0, Window - Cardinality(fl))))
RefillFlight(q, fl) == fl \cup Range(Started(q, fl))
RefillQueue(q, fl) == SubSeq(q, Len(Started(q, fl)) + 1, Len(q))

Fail(e) ==
    /\ pc' = "error"
    /\ error' = <<e>>
    /\ queue' = <<>>
    /\ inflight' = {}

(***************************************************************************)
(* scrape_walmart                                                          *)
(***************************************************************************)
Init ==
    /\ site \in Sites
    /\ pc = "start"
    /\ requestedPages = <<>>
    /\ queue = <<>>
    /\ inflight = {}
    /\ previews = <<>>
    /\ total_items = 0
    /\ max_page = 0
    /\ product_urls = <<>>
    /\ results = <<>>
    /\ returned = <<>>
    /\ error = <<>>
    /\ input = <<>>
    /\ output = <<>>

\* variant: page 2 is requested together with page 1
FetchFirstPage_Eager ==
    /\ pc = "start"
    /\ pc' = "await_first"
    /\ requestedPages' = <<1, 2>>
    /\ UNCHANGED <<site, queue, inflight, previews, total_items, max_page,
                   product_urls, results, returned, error, input, output>>

\* line 43, up to the await
FetchFirstPage ==
    /\ pc = "start"
    /\ pc' = "await_first"
    /\ requestedPages' = <<1>>
    /\ UNCHANGED <<site, queue, inflight, previews, total_items, max_page,
                   product_urls, results, returned, error, input, output>>

\* variant: no clamp
ClampPages_NoCap(total) == CeilDiv(total, PageSize)

\* the clamp of lines 45-48
ClampPages(total) ==
    LET pages == CeilDiv(total, PageSize) IN
    IF pages > PageCap THEN PageCap ELSE pages

\* lines 43-52: the first page arrives, is parsed, the other pages are submitted
FirstPageDone ==
    /\ pc = "await_first"
    /\ LET resp == SearchResponse(site, 1)
           r == ParseSearch(resp) IN
       IF resp.failed
       THEN /\ Fail("ScrapflyError")
            /\ UNCHANGED <<requestedPages, previews, total_items, max_page>>
       ELSE IF r.raised
       THEN /\ Fail(r.exc)
            /\ UNCHANGED <<requestedPages, previews, total_items, max_page>>
       ELSE LET mp == ClampPages(r.total)
                others == IntervalSeq(2, mp) IN
            /\ previews' = r.previews
            /\ total_items' = r.total
            /\ max_page' = mp
            /\ requestedPages' = requestedPages \o others
            /\ inflight' = RefillFlight(others, {})
            /\ queue' = RefillQueue(others, {})
            /\ pc' = "search_batch"
            /\ UNCHANGED error
    /\ UNCHANGED <<site, product_urls, results, returned,
                   input, output>>

\* variant: a page's previews are put in front of the accumulated ones
SearchResult_Prepend ==
    /\ pc = "search_batch"
    /\ \E p \in inflight :
         LET r == ParseSearch(SearchResponse(site, p)) IN
         IF r.raised
         THEN /\ Fail(r.exc)
              /\ UNCHANGED previews
         ELSE /\ previews' = r.previews \o previews
              /\ inflight' = RefillFlight(queue, inflight \ {p})
              /\ queue' = RefillQueue(queue, inflight \ {p})
              /\ UNCHANGED <<pc, error>>
    /\ UNCHANGED <<site, requestedPages, total_items, max_page, product_urls,
                   results, returned, input, output>>

\* lines 50-53: one iteration of the async-for over the other search pages
SearchResult ==
    /\ pc = "search_batch"
    /\ \E p \in inflight :
         LET r == ParseSearch(SearchResponse(site, p)) IN
         IF r.raised
         THEN /\ Fail(r.exc)
              /\ UNCHANGED previews
         ELSE /\ previews' = previews \o r.previews
              /\ inflight' = RefillFlight(queue, inflight \ {p})
              /\ queue' = RefillQueue(queue, inflight \ {p})
              /\ UNCHANGED <<pc, error>>
    /\ UNCHANGED <<site, requestedPages, total_items, max_page, product_urls,
                   results, returned, input, output>>

\* lines 54-55 and 96-100: discover returns, the product urls are built and submitted
DiscoverReturn ==
    /\ pc = "search_batch"
    /\ inflight = {}
    /\ queue = <<>>
    /\ IF \E i \in DOMAIN previews : "canonicalUrl" \notin DOMAIN previews[i]
       THEN /\ Fail("KeyError")
            /\ UNCHANGED product_urls
       ELSE LET urls == [i \in DOMAIN previews |-> UrlJoin(previews[i].canonicalUrl)]
                idx == IntervalSeq(1, Len(urls)) IN
            /\ product_urls' = urls
            /\ inflight' = RefillFlight(idx, {})
            /\ queue' = RefillQueue(idx, {})
            /\ pc' = "product_batch"
            /\ UNCHANGED error
    /\ UNCHANGED <<site, requestedPages, previews, total_items, max_page,
                   results, returned, input, output>>

\* variant: a record already collected is not collected again
ProductResult_Dedup ==
    /\ pc = "product_batch"
    /\ \E i \in inflight :
         LET r == ParseProduct(ProductResponse(site, product_urls[i])) IN
         IF r.raised
         THEN /\ Fail(r.exc)
              /\ UNCHANGED results
         ELSE /\ results' =
                   IF r.value # <<>> /\ r.value[1] \in Range(results)
                   THEN results ELSE results \o r.value
              /\ inflight' = RefillFlight(queue, inflight \ {i})
              /\ queue' = RefillQueue(queue, inflight \ {i})
              /\ UNCHANGED <<pc, error>>
    /\ UNCHANGED <<site, requestedPages, previews, total_items, max_page,
                   product_urls, returned, input, output>>

\* variant: a product page that cannot be parsed is skipped
ProductResult_SkipOnError ==
    /\ pc = "product_batch"
    /\ \E i \in inflight :
         LET r == ParseProduct(ProductResponse(site, product_urls[i])) IN
         /\ results' = IF r.raised THEN results ELSE results \o r.value
         /\ inflight' = RefillFlight(queue, inflight \ {i})
         /\ queue' = RefillQueue(queue, inflight \ {i})
         /\ UNCHANGED <<pc, error>>
    /\ UNCHANGED <<site, requestedPages, previews, total_items, max_page,
                   product_urls, returned, input, output>>

\* lines 87-90: one iteration of the async-for over the product pages
ProductResult ==
    /\ pc = "product_batch"
    /\ \E i \in inflight :
         LET r == ParseProduct(ProductResponse(site, product_urls[i])) IN
         IF r.raised
         THEN /\ Fail(r.exc)
              /\ UNCHANGED results
         ELSE /\ results' = results \o r.value
              /\ inflight' = RefillFlight(queue, inflight \ {i})
              /\ queue' = RefillQueue(queue, inflight \ {i})
              /\ UNCHANGED <<pc, error>>
    /\ UNCHANGED <<site, requestedPages, previews, total_items, max_page,
                   product_urls, returned, input, output>>

\* lines 91 and 100: the collected records are returned
CollectReturn ==
    /\ pc = "product_batch"
    /\ inflight = {}
    /\ queue = <<>>
    /\ returned' = <<results>>
    /\ pc' = "done"
    /\ UNCHANGED <<site, requestedPages, queue, inflight, previews,
                   total_items, max_page, product_urls, results,
                   error, input, output>>

Next ==
    \/ FetchFirstPage
    \/ FirstPageDone
    \/ SearchResult
    \/ DiscoverReturn
    \/ ProductResult
    \/ CollectReturn

Spec == Init /\ [][Next]_vars

(***************************************************************************)
(* The pure functions applied to bounded inputs                            *)
(***************************************************************************)
IdleRun ==
    /\ site = <<>>
    /\ pc = "idle"
    /\ requestedPages = <<>>
    /\ queue = <<>>
    /\ inflight = {}
    /\ previews = <<>>
    /\ total_items = 0
    /\ max_page = 0
    /\ product_urls = <<>>
    /\ results = <<>>
    /\ returned = <<>>
    /\ error = <<>>

SeqsUpTo(S, n) == UNION {[1..k -> S] : k \in 0..n}

QueryChars == {"a", "Z", "7", "_", " ", "&", "=", "%", "+", "/", "U+00E9"}
Queries == SeqsUpTo(QueryChars, MaxQueryLen)
UrlInputs == [query : Queries, page : {1, 2, PageCap}, sort : {price_low, best_match}]

InitUrl ==
    /\ IdleRun
    /\ input \in UrlInputs
    /\ output = <<>>

BuildUrl ==
    /\ pc = "idle"
    /\ output = <<>>
    /\ input \in UrlInputs
    /\ output' = <<CreateSearchUrl(input.query, input.page, input.sort)>>
    /\ UNCHANGED <<runVars, input>>

NextUrl == BuildUrl

SpecUrl == InitUrl /\ [][NextUrl]_vars

TypeNames == {"Product", "AdPlaceholder", "product"}
StackCounts == {0, 2, 41}

\* the items of a stack: entry i carries its position
TypedItems(ts) == [i \in DOMAIN ts |-> [typename |-> ts[i], pos |-> i]]
UntypedItems(ts) ==
    [i \in DOMAIN ts |-> IF i = 1 THEN [pos |-> i] ELSE [typename |-> ts[i], pos |-> i]]

SponsoredStack == [count |-> 7, items |-> <<[typename |-> "Product", pos |-> 9]>>]

SearchDocs ==
    {[failed |-> TRUE], [failed |-> FALSE, blob |-> FALSE],
     [failed |-> FALSE, blob |-> TRUE, itemStacks |-> <<>>]}
    \cup {[failed |-> FALSE, blob |-> TRUE,
           itemStacks |-> <<[count |-> c, items |-> TypedItems(ts)]>> \o rest] :
             c \in StackCounts, ts \in SeqsUpTo(TypeNames, MaxItems),
             rest \in {<<>>, <<SponsoredStack>>}}
    \cup {[failed |-> FALSE, blob |-> TRUE,
           itemStacks |-> <<[items |-> TypedItems(ts)], SponsoredStack>>] :
             ts \in SeqsUpTo(TypeNames, 1)}
    \cup {[failed |-> FALSE, blob |-> TRUE,
           itemStacks |-> <<[count |-> 2, items |-> UntypedItems(ts)]>>] :
             ts \in [1..2 -> TypeNames]}

InitParseSearch ==
    /\ IdleRun
    /\ input \in SearchDocs
    /\ output = <<>>

ApplyParseSearch ==
    /\ pc = "idle"
    /\ output = <<>>
    /\ input \in SearchDocs
    /\ output' = <<ParseSearch(input)>>
    /\ UNCHANGED <<runVars, input>>

NextParseSearch == ApplyParseSearch

SpecParseSearch == InitParseSearch /\ [][NextParseSearch]_vars

RawKeys == {"id", "name", "brand", "type", "priceInfo", "sellerId", "usItemId"}
RawVariants == {1, 2}

ProductDocs ==
    {[failed |-> TRUE], [failed |-> FALSE, blob |-> FALSE]}
    \cup {[failed |-> FALSE, blob |-> TRUE,
           data |-> [product |-> [k \in ks |-> <<k, v>>], reviews |-> [rating |-> v]]] :
             ks \in SUBSET RawKeys, v \in RawVariants}
    \cup {[failed |-> FALSE, blob |-> TRUE, data |-> [product |-> [k \in ks |-> <<k, 1>>]]] :
             ks \in {{}, {"id"}, {"id", "sellerId"}}}
    \cup {[failed |-> FALSE, blob |-> TRUE, data |-> [reviews |-> [rating |-> v]]] :
             v \in RawVariants}

InitParseProduct ==
    /\ IdleRun
    /\ input \in ProductDocs
    /\ output = <<>>

ApplyParseProduct ==
    /\ pc = "idle"
    /\ output = <<>>
    /\ input \in ProductDocs
    /\ output' = <<ParseProduct(input)>>
    /\ UNCHANGED <<runVars, input>>

NextParseProduct == ApplyParseProduct

SpecParseProduct == InitParseProduct /\ [][NextParseProduct]_vars

(***************************************************************************)
(* Properties of a scrape_walmart run (Spec)                               *)
(***************************************************************************)
OtherPages == Range(SubSeq(requestedPages, 2, Len(requestedPages)))
Pending == inflight \cup Range(queue)

\* the search pages 2.. whose result the async-for has consumed
ConsumedPages ==
    IF pc = "search_batch" THEN OtherPages \ Pending ELSE OtherPages

DiscoverDone == pc \in {"product_batch", "done"}

\* the Product entries search page p lists in its first item stack
ListedProducts(s, p) ==
    IF SearchKind(s, p) \in {"noblob", "fetchfail", "malformed"} \/ p > RichPages
    THEN <<>>
    ELSE <<ProductItem(s, p, 1), ProductItem(s, p, 3)>>

IsPrefix(a, b) == Len(a) <= Len(b) /\ SubSeq(b, 1, Len(a)) = a

\* C1: at most 25 distinct search pages are ever requested, all of them in
\* 1..25, whatever total count page 1 reports.
C1_PageCap ==
    /\ Cardinality(Range(requestedPages)) <= 25
    /\ \A i \in DOMAIN requestedPages : requestedPages[i] \in 1..25
    /\ max_page <= 25
    /\ \A t \in {total_items, 1000000, 2147483647} : ClampPages(t) <= 25

C1_Witness ==
    /\ CeilDiv(site.total, PageSize) > 25
    /\ pc = "search_batch"
    /\ Cardinality(Range(requestedPages)) = 25

C2_LastPage(T) == Min((T + 39) \div 40, 25)

\* C2: once discover has completed with page 1 reporting T, the additional
\* pages requested are exactly 2..min(ceil(T/40), 25), each once; 24 of them
\* for T = 1050 and none for T <= 40.
C2_AdditionalPages ==
    (DiscoverDone /\ SearchKind(site, 1) = "ok") =>
        LET extra == SubSeq(requestedPages, 2, Len(requestedPages)) IN
        /\ requestedPages[1] = 1
        /\ Range(extra) = 2..C2_LastPage(site.total)
        /\ Cardinality(Range(extra)) = Len(extra)
        /\ Len(extra) = Max(0, C2_LastPage(site.total) - 1)
        /\ site.total = 1050 => Len(extra) = 24
        /\ site.total <= 40 => Len(extra) = 0

C2_Witness ==
    /\ pc = "done"
    /\ site.total = 1050
    /\ SearchKind(site, 1) = "ok"
    /\ Len(requestedPages) = 25

C3_Record(path) ==
    [product |-> [id |-> path, name |-> "spider", type |-> "VARIANT", priceInfo |-> 5],
     reviews |-> [of |-> path]]

C3_PreviewsAt(path) ==
    Cardinality({i \in DOMAIN previews : previews[i].canonicalUrl = path})

\* C3: collectProducts returns exactly one record per discovered preview whose
\* product page carried the blob (duplicates included) and none for a preview
\* whose product page had no blob, in every delivery order.
C3_CollectedRecords ==
    pc = "done" =>
        /\ Len(returned) = 1
        /\ \A path \in Paths :
             Count(returned[1], C3_Record(path)) =
                 IF ProductKind(site, path) = "ok" THEN C3_PreviewsAt(path) ELSE 0
        /\ \A i \in DOMAIN returned[1] : \E path \in Paths : returned[1][i] = C3_Record(path)

C3_Witness ==
    /\ pc = "done"
    /\ \E a, b \in Paths :
         /\ ProductKind(site, a) = "ok"
         /\ ProductKind(site, b) = "noblob"
         /\ C3_PreviewsAt(a) >= 2
         /\ C3_PreviewsAt(b) >= 1
         /\ Len(returned[1]) = C3_PreviewsAt(a)

C5_SoundPage(s, p) ==
    \/ SearchKind(s, p) \in {"ok", "noblob"}
    \/ SearchKind(s, p) = "nourl" /\ p > RichPages

\* C5: a search page without the blob parses to (empty, 0), never ends the
\* run, and contributes nothing while the other pages' previews are still
\* accumulated; a blob-less page 1 means no further fetch and an empty result.
C5_NoDataAbsorbed ==
    /\ \A p \in {site.oddPage} \cap Range(requestedPages) :
         SearchKind(site, p) = "noblob" =>
             ParseSearch(SearchResponse(site, p)) =
                 [raised |-> FALSE, previews |-> <<>>, total |-> 0]
    /\ ( /\ pc = "error"
         /\ \A p \in Range(requestedPages) : C5_SoundPage(site, p) )
       => \E path \in Paths : ProductKind(site, path) \in {"malformed", "fetchfail"}
    /\ DiscoverDone =>
         /\ \A p \in Range(requestedPages) :
              SearchKind(site, p) = "noblob" => \A i \in DOMAIN previews : previews[i].page # p
         /\ \A p \in Range(requestedPages) :
              SearchKind(site, p) = "ok" =>
                  \A j \in DOMAIN ListedProducts(site, p) :
                      Count(previews, ListedProducts(site, p)[j]) = 1
    /\ (pc \notin {"start", "await_first"} /\ SearchKind(site, 1) = "noblob") =>
         /\ requestedPages = <<1>>
         /\ previews = <<>>
         /\ pc # "error"
         /\ pc = "done" => returned = << <<>> >>

C5_Witness ==
    /\ pc = "done"
    /\ site.oddPage = 2
    /\ site.oddKind = "noblob"
    /\ 2 \in Range(requestedPages)
    /\ 3 \in Range(requestedPages)
    /\ \E i \in DOMAIN previews : previews[i].page = 3
    /\ \E i \in DOMAIN previews : previews[i].page = 1

C6_BadSearchPage(s, p) ==
    \/ SearchKind(s, p) \in {"malformed", "fetchfail"}
    \/ SearchKind(s, p) = "nourl" /\ p <= RichPages

C6_BadProduct(s, path) == ProductKind(s, path) \in {"malformed", "fetchfail"}

\* C6: a malformed page or a failed fetch ends the run in error with nothing
\* returned; what was accumulated before is never delivered.
C6_FatalFailure ==
    /\ pc = "done" =>
         /\ \A p \in Range(requestedPages) : ~C6_BadSearchPage(site, p)
         /\ \A i \in DOMAIN previews : ~C6_BadProduct(site, previews[i].canonicalUrl)
    /\ pc = "error" => returned = <<>> /\ Len(error) = 1
    /\ returned # <<>> => pc = "done"
    /\ (pc = "product_batch" /\ inflight = {} /\ queue = <<>>) =>
         \A i \in DOMAIN previews : ~C6_BadProduct(site, previews[i].canonicalUrl)

C6_Witness ==
    /\ pc = "error"
    /\ returned = <<>>
    /\ Len(previews) >= 4
    /\ Len(results) >= 1
    /\ \E i \in DOMAIN previews : C6_BadProduct(site, previews[i].canonicalUrl)

\* C7: page 1 is requested alone; no page 2.. is requested before page 1 has
\* arrived and its total count has been parsed; the other pages are then
\* submitted together and consumed in completion order.
C7_FirstPageAlone ==
    /\ pc = "start" => requestedPages = <<>>
    /\ pc = "await_first" => requestedPages = <<1>> /\ inflight = {} /\ queue = <<>>
    /\ Len(requestedPages) > 1 =>
         /\ pc \notin {"start", "await_first"}
         /\ SearchKind(site, 1) \in {"ok", "nourl"}
         /\ total_items = site.total
         /\ requestedPages = <<1>> \o IntervalSeq(2, max_page)
    /\ pc = "search_batch" =>
         LET consumed == OtherPages \ Pending IN
         /\ Pending \subseteq OtherPages
         /\ \A i \in DOMAIN previews : previews[i].page \in {1} \cup consumed

C7_Witness ==
    /\ pc = "search_batch"
    /\ 2 \in inflight
    /\ 3 \in ConsumedPages
    /\ \E i \in DOMAIN previews : previews[i].page = 3

C10_BlockAt(p, k) ==
    LET blk == ListedProducts(site, p) IN
    /\ k + Len(blk) - 1 <= Len(previews)
    /\ SubSeq(previews, k, k + Len(blk) - 1) = blk

RECURSIVE C10_Sum(_)
C10_Sum(S) ==
    IF S = {} THEN 0
    ELSE LET p == CHOOSE x \in S : TRUE IN Len(ListedProducts(site, p)) + C10_Sum(S \ {p})

C10_Blocks ==
    pc \in {"search_batch", "product_batch", "done"} =>
        LET consumed == ConsumedPages
            listing == {p \in consumed : ListedProducts(site, p) # <<>>} IN
        /\ IsPrefix(ListedProducts(site, 1), previews)
        /\ \A p \in listing : \E k \in 1..Len(previews) : C10_BlockAt(p, k)
        /\ Len(previews) = C10_Sum({1} \cup listing)
        /\ \A i \in DOMAIN previews : previews[i].page \in {1} \cup consumed

C10_Grows == pc \in {"search_batch", "product_batch"} => IsPrefix(previews, previews')

C10_AppendOnly == [][C10_Grows]_vars

\* C10: the accumulated previews are page 1's previews followed by one
\* contiguous block per consumed page, each block in its within-page order;
\* the collection only grows by appending; every completion order yields the
\* same multiset.
C10_PreviewOrder == []C10_Blocks /\ C10_AppendOnly

C10_Witness ==
    /\ DiscoverDone
    /\ Len(previews) = 6
    /\ previews[3].page = 3
    /\ previews[5].page = 2

(***************************************************************************)
(* Properties of the page parser and the URL builder                       *)
(***************************************************************************)
C4_WellFormed(d) ==
    /\ ~d.failed
    /\ d.blob
    /\ Len(d.itemStacks) >= 1
    /\ {"count", "items"} \subseteq DOMAIN d.itemStacks[1]
    /\ \A i \in DOMAIN d.itemStacks[1].items : "typename" \in DOMAIN d.itemStacks[1].items[i]

\* C4: parse_search returns exactly the "Product" entries of the first item
\* stack in their original relative order, and the first stack's count as the
\* total, whatever was filtered out and whatever other stacks hold.
C4_ProductsOnly ==
    (output # <<>> /\ C4_WellFormed(input)) =>
        LET out == output[1]
            items == input.itemStacks[1].items IN
        /\ ~out.raised
        /\ \A i \in DOMAIN out.previews :
             /\ out.previews[i].typename = "Product"
             /\ out.previews[i].pos \in DOMAIN items
             /\ items[out.previews[i].pos] = out.previews[i]
        /\ \A i, j \in DOMAIN out.previews : i < j => out.previews[i].pos < out.previews[j].pos
        /\ Len(out.previews) = Cardinality({i \in DOMAIN items : items[i].typename = "Product"})
        /\ out.total = input.itemStacks[1].count

C4_Witness ==
    /\ output # <<>>
    /\ C4_WellFormed(input)
    /\ Len(input.itemStacks) = 2
    /\ input.itemStacks[1].count = 41
    /\ Len(input.itemStacks[1].items) = 3
    /\ input.itemStacks[1].items[1].typename = "Product"
    /\ input.itemStacks[1].items[2].typename = "AdPlaceholder"
    /\ input.itemStacks[1].items[3].typename = "Product"
    /\ Len(output[1].previews) = 2

C8_AllowList ==
    {"availabilityStatus", "averageRating", "brand", "id", "imageInfo",
     "manufacturerName", "name", "orderLimit", "orderMinLimit", "priceInfo",
     "shortDescription", "type"}

C8_WellFormed(d) ==
    /\ ~d.failed
    /\ d.blob
    /\ {"product", "reviews"} \subseteq DOMAIN d.data

\* C8: parse_product keeps exactly the raw product's allow-listed keys with
\* their values, pairs them with the unfiltered reviews, and returns no
\* record at all for a document without the blob.
C8_AllowListOnly ==
    output # <<>> =>
        /\ C8_WellFormed(input) =>
             /\ ~output[1].raised
             /\ Len(output[1].value) = 1
             /\ LET rec == output[1].value[1]
                    raw == input.data.product IN
                /\ DOMAIN rec = {"product", "reviews"}
                /\ DOMAIN rec.product = (DOMAIN raw) \cap C8_AllowList
                /\ \A k \in DOMAIN rec.product : rec.product[k] = raw[k]
                /\ rec.reviews = input.data.reviews
        /\ (~input.failed /\ ~input.blob) =>
             output[1] = [raised |-> FALSE, value |-> <<>>]

C8_Witness ==
    /\ output # <<>>
    /\ C8_WellFormed(input)
    /\ {"id", "name", "sellerId", "usItemId"} \subseteq DOMAIN input.data.product
    /\ DOMAIN output[1].value[1].product = (DOMAIN input.data.product) \ {"sellerId", "usItemId"}

Contains(s, sub) ==
    \E k \in 0..(Len(s) - Len(sub)) : SubSeq(s, k + 1, k + Len(sub)) = sub

FirstAmp(s) ==
    IF \E i \in DOMAIN s : s[i] = "&"
    THEN CHOOSE i \in DOMAIN s : s[i] = "&" /\ \A j \in 1..(i - 1) : s[j] # "&"
    ELSE 0

RECURSIVE SplitAmp(_)
SplitAmp(s) ==
    IF FirstAmp(s) = 0 THEN <<s>>
    ELSE <<SubSeq(s, 1, FirstAmp(s) - 1)>> \o SplitAmp(SubSeq(s, FirstAmp(s) + 1, Len(s)))

HexVal(c) == CHOOSE i \in 0..15 : HexChars[i + 1] = c

\* the bytes a percent-encoded form value decodes to; -1 marks an invalid escape
RECURSIVE DecodeBytes(_)
DecodeBytes(e) ==
    IF e = <<>> THEN <<>>
    ELSE IF e[1] = "%"
    THEN IF Len(e) >= 3 /\ e[2] \in Range(HexChars) /\ e[3] \in Range(HexChars)
         THEN <<16 * HexVal(e[2]) + HexVal(e[3])>> \o DecodeBytes(SubSeq(e, 4, Len(e)))
         ELSE <<-1>>
    ELSE IF e[1] = "+" THEN <<32>> \o DecodeBytes(Tail(e))
    ELSE IF e[1] \in {"a", "Z", "7", "_"} THEN Utf8(e[1]) \o DecodeBytes(Tail(e))
    ELSE <<-1>>

C9_Unreserved == LowerCase \cup UpperCase \cup Range(DigitChars) \cup {"_", ".", "-", "~"}

\* the URL carries q percent-encoded: four &-separated parameters after the
\* endpoint, the first being q= followed by unreserved characters, + and
\* %XX escapes only, which decode to the UTF-8 bytes of q
C9_Encoded(url, q) ==
    /\ IsPrefix(SearchEndpoint, url)
    /\ LET fields == SplitAmp(SubSeq(url, Len(SearchEndpoint) + 1, Len(url))) IN
       /\ Len(fields) = 4
       /\ IsPrefix(<<"q", "=">>, fields[1])
       /\ LET enc == SubSeq(fields[1], 3, Len(fields[1])) IN
          /\ \A i \in DOMAIN enc : enc[i] \in C9_Unreserved \cup {"%", "+"}
          /\ DecodeBytes(enc) = Flatten([i \in DOMAIN q |-> Utf8(q[i])])

C9_Case == output # <<>> /\ input.page = 1 /\ input.sort = price_low

\* C9 as stated: the URL percent-encodes q and includes the text
\* page=1&sort=price_low&affinityOverride=default.
C9_Original ==
    C9_Case =>
        /\ C9_Encoded(output[1], input.query)
        /\ Contains(output[1], <<"p", "a", "g", "e", "=", "1", "&", "s", "o", "r", "t", "=", "p", "r", "i", "c", "e", "_", "l", "o", "w", "&", "a", "f", "f", "i", "n", "i", "t", "y", "O", "v", "e", "r", "r", "i", "d", "e", "=", "d", "e", "f", "a", "u", "l", "t">>)

\* C9: for every query q, create_search_url(q, 1, "price_low") percent-encodes
\* q and the URL includes the text sort=price_low&page=1&affinityOverride=default.
C9_SortBeforePage ==
    C9_Case =>
        /\ C9_Encoded(output[1], input.query)
        /\ Contains(output[1], <<"s", "o", "r", "t", "=", "p", "r", "i", "c", "e", "_", "l", "o", "w", "&", "p", "a", "g", "e", "=", "1", "&", "a", "f", "f", "i", "n", "i", "t", "y", "O", "v", "e", "r", "r", "i", "d", "e", "=", "d", "e", "f", "a", "u", "l", "t">>)

C9_Witness ==
    /\ C9_Case
    /\ input.query = <<" ", "&">>
    /\ Contains(output[1], <<"q", "=", "+", "%", "2", "6", "&", "s", "o", "r", "t">>)

====
